---- MODULE Spec2Model ----
(***************************************************************************)
(* State machine of src/src/App.jsx: the App component (chat session,      *)
(* plan, specification, dataset, selection) and the VegaView component     *)
(* (mount / teardown of the chart instance).                               *)
(*                                                                         *)
(* React state is modelled in two layers, as the code uses it:             *)
(*   - the state cells (spec, data, plan, view, selected, input, messages, *)
(*     sending, err) hold the value after every queued set-state call;     *)
(*   - `rendered` holds the values captured by the closures of the last    *)
(*     committed render: the handlers send, quickAskFromSelection, the     *)
(*     effect dependencies [spec, onView] and [view] read these.           *)
(* The action render is React committing a new render: it refreshes the    *)
(* closures and runs the effects whose dependencies changed.               *)
(*                                                                         *)
(* A nullable value is a set with at most one element: {} is null or       *)
(* undefined, {x} is the value x.  Object identities (a specification, a   *)
(* dataset, a chart instance) are positive integers, 0 is null.            *)
(***************************************************************************)
EXTENDS Integers, Sequences, FiniteSets, TLC

(* Bounds of the model. *)
MaxReq == 2

Null == {}
Some(x) == {x}
The(s) == CHOOSE x \in s : TRUE

VARIABLES
  spec,       \* App state: rendering specification (identity), 0 = null
  data,       \* App state: dataset (identity), 0 = null
  plan,       \* App state: Null or Some(plan record)
  view,       \* App state: the published instance, 0 = null
  selected,   \* App state: Null or Some([value, from])
  input,      \* App state: the text of the input box
  messages,   \* App state: Turn History
  sending,    \* App state: in-flight flag
  err,        \* App state: error message, "" = none
  rendered,   \* values captured by the closures of the last committed render
  net,        \* requests in flight: set of request records
  nreq,       \* number of requests issued so far
  settled,    \* the request settled last, with what the transport delivered
  lastTurn,   \* id of the last turn that completed successfully, 0 = none
  planTurn,   \* id of the turn that installed the plan, 0 = none
  mounts,     \* VegaView: one record per effect run (mount), in order
  viewRef,    \* VegaView: viewRef.current, 0 = null
  saved       \* the file last handed to the browser for download, or Null

vars == <<spec, data, plan, view, selected, input, messages, sending, err,
          rendered, net, nreq, settled, lastTurn, planTurn, mounts, viewRef,
          saved>>

----------------------------------------------------------------------------
(* Plans *)

CanonicalPlan(ct) ==
  [chart_type |-> ct, year_from |-> 2020, year_to |-> 2024, doctype |-> Null,
   field_level |-> 1, field_score_min_tenths |-> 3, top_k |-> 25,
   color |-> Null, mark |-> "bar", compare |-> FALSE,
   compare_year_from |-> Null, compare_year_to |-> Null]

(* Plans the remote agent may put in a chat response.  The client receives *)
(* them as parsed JSON: nothing constrains their content.                  *)
AgentPlan(ct, cmp, cf, ct2) ==
  [CanonicalPlan(ct) EXCEPT !.compare = cmp, !.compare_year_from = cf,
                            !.compare_year_to = ct2]

AgentPlans ==
  { AgentPlan("papers_by_year", TRUE, Some(2023), Some(2024)),
    AgentPlan("papers_by_year", TRUE, Null, Null) }

(* Plan invariant of the data model. *)
ComparePlanOk(p) ==
  IF p.compare
    THEN /\ p.compare_year_from # Null
         /\ p.compare_year_to # Null
         /\ The(p.compare_year_from) <= The(p.compare_year_to)
    ELSE p.compare_year_from = Null /\ p.compare_year_to = Null

----------------------------------------------------------------------------
(* Text of the input box: a sequence of pieces of text; the piece " " is   *)
(* whitespace.                                                             *)

InitialInput == <<"show me the number of papers by year from 2020 to 2024">>

TypedInputs == { <<" ", "q", " ">> }

RECURSIVE TrimStart(_)
TrimStart(s) ==
  IF s # <<>> /\ Head(s) = " " THEN TrimStart(Tail(s)) ELSE s

RECURSIVE TrimEnd(_)
TrimEnd(s) ==
  IF s # <<>> /\ s[Len(s)] = " " THEN TrimEnd(SubSeq(s, 1, Len(s) - 1)) ELSE s

trim(s) == TrimEnd(TrimStart(s))

----------------------------------------------------------------------------
(* Values of the "pick" signal: a falsy value (Null) or a datum.           *)

PickValues ==
  { [keys |-> {"year"}, year |-> Some(2021), group |-> Null, field |-> Null] }

----------------------------------------------------------------------------
(* Responses of the backend *)

Failures == { [st |-> "fail", message |-> m] : m \in {"HTTP 500", "Failed to fetch"} }

(* A chat response: an answer and any subset of the optional fields, or a  *)
(* body that carries nothing at all (no answer either).                    *)
ChatResponses ==
  { [st |-> "ok", answer |-> Some(<<"answer">>), vegaLiteSpec |-> s, data |-> d,
     plan |-> p] :
      s \in BOOLEAN, d \in BOOLEAN, p \in {Null} \cup {Some(q) : q \in AgentPlans} }
  \cup { [st |-> "ok", answer |-> Null, vegaLiteSpec |-> FALSE, data |-> FALSE,
          plan |-> Null] }

ChartResponses ==
  { [st |-> "ok", vegaLiteSpec |-> s, data |-> d] : s \in BOOLEAN, d \in BOOLEAN }

----------------------------------------------------------------------------
Snapshot ==
  [spec |-> spec, plan |-> plan, view |-> view, selected |-> selected,
   input |-> input, sending |-> sending]

Init ==
  /\ spec = 0
  /\ data = 0
  /\ plan = Null
  /\ view = 0
  /\ selected = Null
  /\ input = InitialInput
  /\ messages = <<>>
  /\ sending = FALSE
  /\ err = ""
  /\ rendered = Snapshot
  /\ net = {}
  /\ nreq = 0
  /\ settled = Null
  /\ lastTurn = 0
  /\ planTurn = 0
  /\ mounts = <<>>
  /\ viewRef = 0
  /\ saved = Null

----------------------------------------------------------------------------
(* App: requests *)

(* post, up to its await: setErr("") and the fetch is started.  `before`   *)
(* is not program state: it records what the session held when the        *)
(* request was issued, for the properties that compare against it.         *)
post(kind, text, prevPlan) ==
  /\ err' = ""
  /\ net' = net \cup { [id |-> nreq + 1, kind |-> kind, text |-> text,
                        prev_plan |-> prevPlan,
                        before |-> [messages |-> messages, plan |-> plan,
                                    spec |-> spec, data |-> data]] }
  /\ nreq' = nreq + 1

(* post, after its await: the fetch of request r settles with resp (r.ok   *)
(* and a JSON body, a non-2xx status, or a network failure) and post       *)
(* returns the body or throws.                                             *)
postResume(r, resp) ==
  /\ r \in net
  /\ resp \in (IF r.kind = "chat" THEN ChatResponses ELSE ChartResponses) \cup Failures
  /\ net' = net \ {r}
  /\ settled' = Some([id |-> r.id, kind |-> r.kind, resp |-> resp])
  /\ lastTurn' = IF resp.st = "ok" THEN r.id ELSE lastTurn

(* send, up to its await: the guard reads the closure's input and sending. *)
send ==
  LET text == trim(rendered.input) IN
  IF text = <<>> \/ rendered.sending
    THEN UNCHANGED vars
    ELSE /\ nreq < MaxReq
         /\ sending' = TRUE
         /\ messages' = Append(messages, [role |-> "user", text |-> text])
         /\ input' = <<>>
         /\ post("chat", text, rendered.plan)
         /\ UNCHANGED <<spec, data, plan, view, selected, rendered, settled,
                        lastTurn, mounts, viewRef, saved, planTurn>>

(* Faulty variant of sendTry: the dataset is set unconditionally,          *)
(* setData(j.data || null), as the quick loads do.                         *)
sendTryAlwaysSetsData(r, resp) ==
  /\ messages' = Append(messages,
        [role |-> "assistant",
         text |-> IF resp.answer = Null THEN <<"OK">> ELSE The(resp.answer)])
  /\ spec' = IF resp.vegaLiteSpec THEN r.id ELSE spec
  /\ data' = IF resp.data THEN r.id ELSE 0
  /\ plan' = IF resp.plan # Null THEN resp.plan ELSE plan
  /\ planTurn' = IF resp.plan # Null THEN r.id ELSE planTurn
  /\ selected' = Null
  /\ err' = err

(* send: the rest of the try block, with the response body j = resp.       *)
sendTry(r, resp) ==
  /\ messages' = Append(messages,
        [role |-> "assistant",
         text |-> IF resp.answer = Null THEN <<"OK">> ELSE The(resp.answer)])
  /\ spec' = IF resp.vegaLiteSpec THEN r.id ELSE spec
  /\ data' = IF resp.data THEN r.id ELSE data
  /\ plan' = IF resp.plan # Null THEN resp.plan ELSE plan
  /\ planTurn' = IF resp.plan # Null THEN r.id ELSE planTurn
  /\ selected' = Null
  /\ err' = err

(* Faulty variant of sendCatch: the catch block also resets the plan. *)
sendCatchResetsPlan(r, resp) ==
  /\ err' = resp.message
  /\ plan' = Null
  /\ planTurn' = 0
  /\ UNCHANGED <<messages, spec, data, selected>>

(* send: the catch block. *)
sendCatch(r, resp) ==
  /\ err' = resp.message
  /\ UNCHANGED <<messages, spec, data, plan, planTurn, selected>>

(* send, after its await: try or catch, then finally. *)
sendResume(r, resp) ==
  /\ r.kind = "chat"
  /\ postResume(r, resp)
  /\ IF resp.st = "ok" THEN sendTry(r, resp) ELSE sendCatch(r, resp)
  /\ sending' = FALSE
  /\ UNCHANGED <<view, input, rendered, nreq, mounts, viewRef, saved>>

(* loadYearChart / loadFieldChart, up to the await. *)
loadChart(kind) ==
  /\ nreq < MaxReq
  /\ post(kind, <<>>, Null)
  /\ UNCHANGED <<spec, data, plan, view, selected, input, messages, sending,
                 rendered, settled, lastTurn, mounts, viewRef, saved, planTurn>>

loadYearChart == loadChart("papers_by_year")

loadFieldChart == loadChart("papers_by_field")

(* Faulty variant of loadTry: the defaults are merged into the Plan        *)
(* installed before instead of replacing it.                               *)
loadTryMergesPlan(r, resp) ==
  /\ spec' = IF resp.vegaLiteSpec THEN r.id ELSE 0
  /\ data' = IF resp.data THEN r.id ELSE 0
  /\ selected' = Null
  /\ plan' = IF plan = Null THEN Some(CanonicalPlan(r.kind))
             ELSE Some([The(plan) EXCEPT !.chart_type = r.kind])
  /\ planTurn' = r.id
  /\ err' = err

(* Faulty variant of loadTry: the specification is replaced only when the  *)
(* response carries one, as send does.                                     *)
loadTryKeepsSpec(r, resp) ==
  /\ spec' = IF resp.vegaLiteSpec THEN r.id ELSE spec
  /\ data' = IF resp.data THEN r.id ELSE 0
  /\ selected' = Null
  /\ plan' = Some(CanonicalPlan(r.kind))
  /\ planTurn' = r.id
  /\ err' = err

(* Faulty variant of loadTry: setSelected(null) is missing. *)
loadTryKeepsSelected(r, resp) ==
  /\ spec' = IF resp.vegaLiteSpec THEN r.id ELSE 0
  /\ data' = IF resp.data THEN r.id ELSE 0
  /\ selected' = selected
  /\ plan' = Some(CanonicalPlan(r.kind))
  /\ planTurn' = r.id
  /\ err' = err

(* loadYearChart / loadFieldChart: the rest of the try block. *)
loadTry(r, resp) ==
  /\ spec' = IF resp.vegaLiteSpec THEN r.id ELSE 0
  /\ data' = IF resp.data THEN r.id ELSE 0
  /\ selected' = Null
  /\ plan' = Some(CanonicalPlan(r.kind))
  /\ planTurn' = r.id
  /\ err' = err

(* loadYearChart / loadFieldChart: the catch block. *)
loadCatch(r, resp) ==
  /\ err' = resp.message
  /\ UNCHANGED <<spec, data, plan, planTurn, selected>>

(* loadYearChart / loadFieldChart, after the await. *)
loadChartResume(r, resp) ==
  /\ r.kind # "chat"
  /\ postResume(r, resp)
  /\ IF resp.st = "ok" THEN loadTry(r, resp) ELSE loadCatch(r, resp)
  /\ UNCHANGED <<view, input, messages, sending, rendered, nreq, mounts, viewRef, saved>>

(* onChange of the input box (the box is disabled while sending). *)
onChange(s) ==
  /\ ~rendered.sending
  /\ input' = s
  /\ UNCHANGED <<spec, data, plan, view, selected, messages, sending, err,
                 rendered, net, nreq, settled, lastTurn, mounts, viewRef, saved, planTurn>>

----------------------------------------------------------------------------
(* App: selection *)

selectionSummary(sel) ==
  IF sel = Null THEN Null
  ELSE IF The(sel).value.keys = {} THEN Null
  ELSE Some(The(sel).value)

(* The "pick" listener attached by the effect of the last committed render *)
(* fires on the instance it is attached to.                                *)
pick(v) ==
  /\ rendered.view # 0
  /\ mounts[rendered.view].st = "live"
  /\ selected' = IF v = Null THEN Null
                 ELSE Some([value |-> The(v), from |-> rendered.view])
  /\ UNCHANGED <<spec, data, plan, view, input, messages, sending, err,
                 rendered, net, nreq, settled, lastTurn, mounts, viewRef, saved, planTurn>>

(* The Clear button, shown while the rendered selectionSummary is set. *)
clearSelected ==
  /\ selectionSummary(rendered.selected) # Null
  /\ selected' = Null
  /\ UNCHANGED <<spec, data, plan, view, input, messages, sending, err,
                 rendered, net, nreq, settled, lastTurn, mounts, viewRef, saved, planTurn>>

(* JavaScript truthiness of a string attribute that may be absent. *)
Truthy(a) == a # Null /\ The(a) # ""

(* `${v}` of a template literal: String(v), "undefined" for an attribute   *)
(* the selection lacks, "null" for a plan field that is null.              *)
Template(a, absent) == IF a = Null THEN absent ELSE ToString(The(a))

(* String(plan.field_score_min), the value being kept in tenths. *)
TemplateTenths(n) ==
  IF n % 10 = 0 THEN <<ToString(n \div 10)>>
  ELSE <<ToString(n \div 10), ".", ToString(n % 10)>>

CompareClause(p) ==
  <<" and compare ", ToString(p.year_from), "-", ToString(p.year_to), " vs ",
    Template(p.compare_year_from, "null"), "-",
    Template(p.compare_year_to, "null")>>

FieldTail(p) ==
  <<", top_k ", ToString(p.top_k), ", field_score_min ">>
    \o TemplateTenths(p.field_score_min_tenths)
    \o <<", field_level ", ToString(p.field_level)>>

(* Faulty variant of translate: the field chart does not require `field`. *)
translateWithoutFieldCheck(sel, p) ==
  IF sel = Null \/ p = Null THEN Null
  ELSE IF The(p).chart_type = "papers_by_year"
    THEN Some(<<"show me the number of papers by year from ",
                Template(The(sel).year, "undefined"), " to ",
                Template(The(sel).year, "undefined")>>
              \o (IF Truthy(The(sel).group) THEN CompareClause(The(p)) ELSE <<>>))
  ELSE IF The(p).chart_type = "papers_by_field"
    THEN Some(<<"show me papers by field from ", ToString(The(p).year_from),
                " to ", ToString(The(p).year_to)>>
              \o (IF The(p).compare THEN CompareClause(The(p)) ELSE <<>>)
              \o FieldTail(The(p)))
  ELSE Null

(* The message quickAskFromSelection computes from selectionSummary and    *)
(* plan, Null where it returns without calling setInput.  The text is a    *)
(* sequence of pieces.                                                     *)
translate(sel, p) ==
  IF sel = Null \/ p = Null THEN Null
  ELSE IF The(p).chart_type = "papers_by_year"
    THEN Some(<<"show me the number of papers by year from ",
                Template(The(sel).year, "undefined"), " to ",
                Template(The(sel).year, "undefined")>>
              \o (IF Truthy(The(sel).group) THEN CompareClause(The(p)) ELSE <<>>))
  ELSE IF The(p).chart_type = "papers_by_field"
    THEN IF ~Truthy(The(sel).field) THEN Null
         ELSE Some(<<"show me papers by field from ", ToString(The(p).year_from),
                     " to ", ToString(The(p).year_to)>>
                   \o (IF The(p).compare THEN CompareClause(The(p)) ELSE <<>>)
                   \o FieldTail(The(p)))
  ELSE Null

(* Faulty variant of quickAskFromSelection: it also clears the selection   *)
(* it has used.                                                            *)
quickAskClearsSelection ==
  LET msg == translate(selectionSummary(rendered.selected), rendered.plan) IN
  /\ selectionSummary(rendered.selected) # Null
  /\ IF msg = Null
       THEN UNCHANGED vars
       ELSE /\ input' = The(msg)
            /\ selected' = Null
            /\ UNCHANGED <<spec, data, plan, view, messages, sending,
                           err, rendered, net, nreq, settled, lastTurn, mounts,
                           viewRef, saved, planTurn>>

(* The "Use as follow-up" button, shown while the rendered                 *)
(* selectionSummary is set: setInput(msg), or nothing.                     *)
quickAskFromSelection ==
  LET msg == translate(selectionSummary(rendered.selected), rendered.plan) IN
  /\ selectionSummary(rendered.selected) # Null
  /\ IF msg = Null
       THEN UNCHANGED vars
       ELSE /\ input' = The(msg)
            /\ UNCHANGED <<spec, data, plan, view, selected, messages, sending,
                           err, rendered, net, nreq, settled, lastTurn, mounts,
                           viewRef, saved, planTurn>>

----------------------------------------------------------------------------
(* VegaView *)

(* viewRef.current.finalize(); viewRef.current = null *)
finalizeRef(ms, ref) ==
  IF ref # 0 THEN [ms EXCEPT ![ref].st = "finalized"] ELSE ms

(* Faulty variant of cleanup: the instance held by viewRef is not finalized. *)
cleanupKeepsInstance(ms) ==
  [ms EXCEPT ![Len(ms)].canceled = TRUE]

(* The effect's cleanup, for the mount in force (the last one): canceled = *)
(* true and the instance held by viewRef is finalized (render applies its  *)
(* onView(null) and viewRef.current = null).                               *)
cleanup(ms) ==
  finalizeRef([ms EXCEPT ![Len(ms)].canceled = TRUE], viewRef)

(* run, up to its await: the construction of a new instance starts. *)
run(ms, ref, sp) ==
  Append(finalizeRef(ms, ref),
         [spec |-> sp, canceled |-> FALSE, st |-> "constructing",
          published |-> FALSE])

(* Faulty variant of render: the cleanup does not call onView(null). *)
renderKeepsView ==
  /\ rendered # Snapshot
  /\ rendered' = Snapshot
  /\ IF spec # rendered.spec
       THEN LET hadEffect == rendered.spec # 0
                ms1 == IF hadEffect THEN cleanup(mounts) ELSE mounts
                ref1 == IF hadEffect THEN 0 ELSE viewRef
            IN /\ view' = view
               /\ viewRef' = 0
               /\ mounts' = IF spec # 0 THEN run(ms1, ref1, spec) ELSE ms1
       ELSE UNCHANGED <<view, mounts, viewRef>>
  /\ UNCHANGED <<spec, data, plan, selected, input, messages, sending, err,
                 net, nreq, settled, lastTurn, saved, planTurn>>

(* React commits a render: the closures are refreshed; when the spec       *)
(* dependency changed the VegaView effect is cleaned up and run again      *)
(* (VegaView is rendered only while spec is set).                          *)
render ==
  /\ rendered # Snapshot
  /\ rendered' = Snapshot
  /\ IF spec # rendered.spec
       THEN LET hadEffect == rendered.spec # 0
                ms1 == IF hadEffect THEN cleanup(mounts) ELSE mounts
                ref1 == IF hadEffect THEN 0 ELSE viewRef
            IN /\ view' = IF hadEffect THEN 0 ELSE view
               /\ viewRef' = 0
               /\ mounts' = IF spec # 0 THEN run(ms1, ref1, spec) ELSE ms1
       ELSE UNCHANGED <<view, mounts, viewRef>>
  /\ UNCHANGED <<spec, data, plan, selected, input, messages, sending, err,
                 net, nreq, settled, lastTurn, saved, planTurn>>

(* Faulty variant of runResolved: the canceled flag is not consulted. *)
runResolvedIgnoresCanceled(m) ==
  /\ mounts' = [mounts EXCEPT ![m].st = "live", ![m].published = TRUE]
  /\ viewRef' = m
  /\ view' = m

(* Faulty variant of runResolved: a canceled run returns without          *)
(* finalizing the instance it has just constructed.                        *)
runResolvedLeaksCanceled(m) ==
  IF mounts[m].canceled
    THEN /\ mounts' = [mounts EXCEPT ![m].st = "live"]
         /\ UNCHANGED <<view, viewRef>>
    ELSE /\ mounts' = [mounts EXCEPT ![m].st = "live", ![m].published = TRUE]
         /\ viewRef' = m
         /\ view' = m

(* run, after its await, vegaEmbed resolved: a canceled run finalizes the  *)
(* new instance unused, any other keeps it in viewRef and publishes it.    *)
runResolved(m) ==
  IF mounts[m].canceled
    THEN /\ mounts' = [mounts EXCEPT ![m].st = "finalized"]
         /\ UNCHANGED <<view, viewRef>>
    ELSE /\ mounts' = [mounts EXCEPT ![m].st = "live", ![m].published = TRUE]
         /\ viewRef' = m
         /\ view' = m

(* Faulty variant of runRejected: onView(null) whether canceled or not. *)
runRejectedIgnoresCanceled(m) ==
  /\ mounts' = [mounts EXCEPT ![m].st = "failed"]
  /\ view' = 0
  /\ UNCHANGED viewRef

(* run().catch, vegaEmbed rejected: onView(null) unless canceled. *)
runRejected(m) ==
  /\ mounts' = [mounts EXCEPT ![m].st = "failed"]
  /\ view' = IF mounts[m].canceled THEN view ELSE 0
  /\ UNCHANGED viewRef

(* The construction started by mount m settles. *)
runResume(m, ok) ==
  /\ m \in 1..Len(mounts)
  /\ mounts[m].st = "constructing"
  /\ IF ok THEN runResolved(m) ELSE runRejected(m)
  /\ UNCHANGED <<spec, data, plan, selected, input, messages, sending, err,
                 rendered, net, nreq, settled, lastTurn, saved, planTurn>>

----------------------------------------------------------------------------
Next ==
  \/ send
  \/ \E r \in net : \E resp \in ChatResponses \cup Failures : sendResume(r, resp)
  \/ loadYearChart
  \/ loadFieldChart
  \/ \E r \in net : \E resp \in ChartResponses \cup Failures : loadChartResume(r, resp)
  \/ \E s \in TypedInputs : onChange(s)
  \/ \E v \in {Null} \cup {Some(x) : x \in PickValues} : pick(v)
  \/ clearSelected
  \/ quickAskFromSelection
  \/ render
  \/ \E m \in 1..Len(mounts) : \E ok \in BOOLEAN : runResume(m, ok)

Spec == Init /\ [][Next]_vars

----------------------------------------------------------------------------
(* The translator on its own: a session whose first turn has completed and *)
(* whose chart (instance 1) is live, with every shape of Plan and of       *)
(* Selection; the user edits the input, asks for the follow-up, and React  *)
(* renders.                                                                *)

Datum(ks, y, g, f) == [keys |-> ks, year |-> y, group |-> g, field |-> f]

TranslateSelections ==
  {Null} \cup
  { Some([value |-> v, from |-> 1]) :
      v \in { Datum({}, Null, Null, Null),
              Datum({"year"}, Some(2021), Null, Null),
              Datum({"year", "group"}, Some(2021), Some("A"), Null),
              Datum({"group"}, Null, Some("A"), Null),
              Datum({"field"}, Null, Null, Some("Physics")),
              Datum({"field"}, Null, Null, Some("")),
              Datum({"field", "group"}, Null, Some("A"), Some("Physics")) } }

TranslatePlans ==
  {Null} \cup
  { Some(q) : q \in AgentPlans \cup
      { CanonicalPlan("papers_by_year"), CanonicalPlan("papers_by_field"),
        AgentPlan("papers_by_field", TRUE, Some(2021), Some(2022)),
        AgentPlan("papers_by_doctype", FALSE, Null, Null) } }

TranslateInit ==
  /\ spec = 1
  /\ data = 1
  /\ plan \in TranslatePlans
  /\ view = 1
  /\ selected \in TranslateSelections
  /\ input = <<>>
  /\ messages = << [role |-> "user", text |-> InitialInput],
                   [role |-> "assistant", text |-> <<"answer">>] >>
  /\ sending = FALSE
  /\ err = ""
  /\ rendered = Snapshot
  /\ net = {}
  /\ nreq = 1
  /\ settled = Null
  /\ lastTurn = 1
  /\ planTurn = (IF plan = Null THEN 0 ELSE 1)
  /\ mounts = << [spec |-> 1, canceled |-> FALSE, st |-> "live",
                  published |-> TRUE] >>
  /\ viewRef = 1
  /\ saved = Null

TranslateNext ==
  \/ quickAskFromSelection
  \/ \E s \in TypedInputs : onChange(s)
  \/ render

TranslateSpec == TranslateInit /\ [][TranslateNext]_vars

----------------------------------------------------------------------------
(* Tabular export.  A text is a sequence of characters; a record of the    *)
(* dataset is the sequence of its (key, value) pairs in key order; a value *)
(* is Null (null or undefined), Some([num |-> n]) or Some([str |-> text]). *)

Quote == "\""
Comma == ","
LF == "\n"
CR == "\r"

Num(n) == Some([num |-> n])
Str(t) == Some([str |-> t])

(* String(n) of a natural number: its decimal digits. *)
RECURSIVE Digits(_)
Digits(n) ==
  IF n < 10 THEN <<ToString(n)>> ELSE Digits(n \div 10) \o <<ToString(n % 10)>>

(* String(v) of a value that is not null or undefined. *)
String(v) == IF "num" \in DOMAIN v THEN Digits(v.num) ELSE v.str

(* s.replace(/"/g, '""') *)
RECURSIVE DoubleQuotes(_)
DoubleQuotes(t) ==
  IF t = <<>> THEN <<>>
  ELSE (IF Head(t) = Quote THEN <<Quote, Quote>> ELSE <<Head(t)>>)
         \o DoubleQuotes(Tail(t))

escapeCsvCell(v) ==
  LET t == IF v = Null THEN <<>> ELSE String(The(v)) IN
  IF \E i \in 1..Len(t) : t[i] \in {Quote, Comma, LF, CR}
    THEN <<Quote>> \o DoubleQuotes(t) \o <<Quote>>
    ELSE t

(* parts.join(sep) *)
RECURSIVE join(_, _)
join(parts, sep) ==
  IF parts = <<>> THEN <<>>
  ELSE IF Len(parts) = 1 THEN parts[1]
  ELSE parts[1] \o <<sep>> \o join(Tail(parts), sep)

(* Object.keys(r) and r[h] (undefined when r lacks the key). *)
Keys(r) == [i \in 1..Len(r) |-> r[i].k]

Get(r, h) ==
  IF \E i \in 1..Len(r) : r[i].k = h
    THEN r[CHOOSE i \in 1..Len(r) : r[i].k = h].v
    ELSE Null

(* Faulty variant of toCsv: each row is built from its own record's keys. *)
toCsvOwnKeys(rows) ==
  IF rows = <<>> THEN <<>>
  ELSE LET headers == Keys(rows[1])
           line(r) == join([j \in 1..Len(r) |-> escapeCsvCell(r[j].v)], Comma)
       IN join(<<join([j \in 1..Len(headers) |-> escapeCsvCell(Str(headers[j]))],
                      Comma)>>
               \o [i \in 1..Len(rows) |-> line(rows[i])], LF)

toCsv(rows) ==
  IF rows = <<>> THEN <<>>
  ELSE LET headers == Keys(rows[1])
           line(r) == join([j \in 1..Len(headers) |->
                              escapeCsvCell(Get(r, headers[j]))], Comma)
       IN join(<<join([j \in 1..Len(headers) |-> escapeCsvCell(Str(headers[j]))],
                      Comma)>>
               \o [i \in 1..Len(rows) |-> line(rows[i])], LF)

(* The name every export derives from the plan, with its suffix. *)
ExportName(p, suffix) ==
  <<p.chart_type, "_", ToString(p.year_from), "-", ToString(p.year_to), suffix>>

(* The "Download data (CSV)" button (it reads the rendered plan and data;  *)
(* nothing changes them here).                                             *)
downloadCurrentDataCsv ==
  IF rendered.plan = Null \/ data = Null \/ The(data) = <<>>
    THEN UNCHANGED vars
    ELSE /\ saved' = Some([filename |-> ExportName(The(rendered.plan), "_data.csv"),
                           type |-> "text/csv;charset=utf-8",
                           content |-> toCsv(The(data))])
         /\ UNCHANGED <<spec, data, plan, view, selected, input, messages,
                        sending, err, rendered, net, nreq, settled, lastTurn,
                        mounts, viewRef, planTurn>>

(* The export on its own: a session holding a plan and a dataset (here     *)
(* data is the dataset itself, Null or Some(rows), where the session       *)
(* elsewhere keeps only its identity).                                     *)
KeyYear == <<"y", "e", "a", "r">>
KeyCount == <<"c", "o", "u", "n", "t">>
KeyName == <<"n">>

Pair(key, value) == [k |-> key, v |-> value]

CsvRecords ==
  { << Pair(KeyYear, Num(2020)), Pair(KeyCount, Num(5)) >>,
    << Pair(KeyYear, Num(2021)), Pair(KeyCount, Num(9)) >>,
    << Pair(KeyCount, Num(9)), Pair(KeyYear, Num(2021)) >>,
    << Pair(KeyYear, Num(2021)) >>,
    << Pair(KeyYear, Num(2021)), Pair(KeyCount, Null),
       Pair(KeyName, Str(<<"a", Comma, "b">>)) >>,
    << Pair(KeyName, Str(<<"q", Quote, LF>>)), Pair(KeyYear, Num(0)) >>,
    << >> }

MaxRows == 2

CsvDatasets ==
  UNION { [1..n -> CsvRecords] : n \in 0..MaxRows }

CsvInit ==
  /\ spec = 1
  /\ data \in {Null} \cup { Some(d) : d \in CsvDatasets }
  /\ plan \in {Null, Some(CanonicalPlan("papers_by_year"))}
  /\ view = 0
  /\ selected = Null
  /\ input = <<>>
  /\ messages = <<>>
  /\ sending = FALSE
  /\ err = ""
  /\ rendered = Snapshot
  /\ net = {}
  /\ nreq = 1
  /\ settled = Null
  /\ lastTurn = 1
  /\ planTurn = (IF plan = Null THEN 0 ELSE 1)
  /\ mounts = <<>>
  /\ viewRef = 0
  /\ saved = Null

CsvNext == downloadCurrentDataCsv

CsvSpec == CsvInit /\ [][CsvNext]_vars

(* Reading a delimited text back: the rows of cells it denotes (a comma    *)
(* or a line break inside quotes belongs to the cell, a doubled quote      *)
(* inside quotes is one quote).  An empty line is one empty cell.          *)
RECURSIVE ReadCsv(_, _, _, _, _, _)
ReadCsv(t, i, quoted, cell, row, rows) ==
  IF i > Len(t) THEN Append(rows, Append(row, cell))
  ELSE IF quoted
    THEN IF t[i] # Quote THEN ReadCsv(t, i + 1, TRUE, Append(cell, t[i]), row, rows)
         ELSE IF i < Len(t) /\ t[i + 1] = Quote
           THEN ReadCsv(t, i + 2, TRUE, Append(cell, Quote), row, rows)
         ELSE ReadCsv(t, i + 1, FALSE, cell, row, rows)
    ELSE IF t[i] = Quote THEN ReadCsv(t, i + 1, TRUE, cell, row, rows)
         ELSE IF t[i] = Comma
           THEN ReadCsv(t, i + 1, FALSE, <<>>, Append(row, cell), rows)
         ELSE IF t[i] = LF
           THEN ReadCsv(t, i + 1, FALSE, <<>>, <<>>, Append(rows, Append(row, cell)))
         ELSE ReadCsv(t, i + 1, FALSE, Append(cell, t[i]), row, rows)

----------------------------------------------------------------------------
(* Steps, as the properties below name them. *)

(* Request r settles in this step; Delivered is what the transport gave. *)
Settles(r) == r \in net /\ r \notin net'

Delivered == The(settled').resp

ChatInFlight == { r \in net : r.kind = "chat" }

(* The construction started by mount m is rejected in this step. *)
Rejects(m) == mounts[m].st = "constructing" /\ mounts'[m].st = "failed"

Live == { m \in 1..Len(mounts) : mounts[m].st = "live" }

----------------------------------------------------------------------------
(* C1. Single-flight: at most one chat request is in flight at any time,   *)
(* and a send issued while a chat request is in flight changes none of     *)
(* Turn History, Plan, specification, dataset and issues no request.       *)
C1_SingleFlight ==
  [][ /\ Cardinality({ r \in net' : r.kind = "chat" }) <= 1
      /\ (ChatInFlight # {} /\ send)
           => UNCHANGED <<messages, plan, spec, data, net>> ]_vars

(* The published instance is the latest mount's, and a live instance is    *)
(* the published one.                                                      *)
LatestPublished ==
  /\ view # 0 => view = Len(mounts) /\ mounts[view].st = "live"
  /\ \A m \in Live : view = m

(* A construction that settles after a newer mount was requested ends      *)
(* finalized or failed, unpublished; an ended instance stays as it ended.  *)
SupersededNeverPublished ==
  \A m \in 1..Len(mounts) :
    /\ (m < Len(mounts) /\ mounts[m].st = "constructing"
          /\ mounts'[m].st # "constructing")
         => /\ mounts'[m].st \in {"finalized", "failed"}
            /\ ~mounts'[m].published
            /\ view' # m
    /\ mounts[m].st \in {"finalized", "failed"}
         => /\ mounts'[m].st = mounts[m].st
            /\ mounts'[m].published = mounts[m].published

(* C2. Last-mount-wins: the published instance is never that of a mount    *)
(* older than the latest one requested; a construction that resolves after *)
(* a newer mount was requested ends finalized (or failed) and unpublished, *)
(* for good; and a latest mount that resolved and was not torn down is the *)
(* published instance.                                                     *)
C2_LastMountWins == [][LatestPublished' /\ SupersededNeverPublished]_vars

C2_Witness ==
  /\ Len(mounts) >= 2
  /\ mounts[1].st = "finalized" /\ ~mounts[1].published
  /\ mounts[2].st = "live"
  /\ view = 2

(* C3. At most one render instance is live; a live instance belongs to the *)
(* latest mount and is the one viewRef holds, so none is live while a      *)
(* newer construction is under way.                                        *)
C3_OneLiveInstance ==
  /\ Cardinality(Live) <= 1
  /\ \A m \in Live : m = Len(mounts) /\ viewRef = m
  /\ viewRef # 0 => viewRef \in Live

C3_Witness ==
  /\ Len(mounts) >= 2
  /\ mounts[1].published /\ mounts[1].st = "finalized"
  /\ mounts[2].st = "live"

C5_CarriedFieldsReplace ==
  [][ \A r \in net :
        (Settles(r) /\ r.kind = "chat" /\ Delivered.st = "ok")
          => /\ spec' = IF Delivered.vegaLiteSpec THEN r.id ELSE spec
             /\ data' = IF Delivered.data THEN r.id ELSE data
             /\ plan' = IF Delivered.plan # Null THEN Delivered.plan ELSE plan
    ]_vars

C5_Witness ==
  /\ settled # Null
  /\ The(settled).kind = "chat"
  /\ The(settled).resp.st = "ok"
  /\ The(settled).resp.vegaLiteSpec
  /\ ~The(settled).resp.data
  /\ The(settled).resp.plan = Null
  /\ spec = The(settled).id
  /\ data \notin {0, The(settled).id}
  /\ plan # Null

(* Every turn that completes successfully leaves Selection none. *)
TurnClearsSelection ==
  \A r \in net : (Settles(r) /\ Delivered.st = "ok") => selected' = Null

(* C6, as claimed. Completing any successful turn leaves Selection none,   *)
(* and Selection then stays none until an instance mounted for that turn   *)
(* (the newly mounted instance) emits a selection.                         *)
C6_ClearedUntilNewInstanceEmits ==
  [][ /\ TurnClearsSelection
      /\ (selected = Null /\ selected' # Null)
           => mounts[The(selected').from].spec = lastTurn ]_vars

(* C6, amended. Completing any successful turn leaves Selection none, and  *)
(* Selection then stays none until the instance the pick listener is       *)
(* attached to emits a selection: the newly mounted one, or the one        *)
(* already mounted when the turn brought no new specification or the new   *)
(* specification is not mounted yet.                                       *)
C6_ClearedUntilListenedInstanceEmits ==
  [][ /\ TurnClearsSelection
      /\ (selected = Null /\ selected' # Null)
           => /\ The(selected').from = rendered.view
              /\ mounts[rendered.view].st = "live" ]_vars

C6_Witness ==
  /\ selected = Null
  /\ rendered.selected # Null
  /\ lastTurn # 0
  /\ settled # Null
  /\ The(settled).id = lastTurn
  /\ net = {}

(* C7. Whenever Selection is not none it was emitted by the instance that  *)
(* is currently published (and live), so Selection is none once that       *)
(* instance has been replaced or destroyed.                                *)
C7_SelectionOfPublishedInstance ==
  selected # Null
    => /\ The(selected).from = view
       /\ mounts[view].st = "live"

(* C8, as claimed. When a construction fails currentInstance is null       *)
(* afterwards and no instance of an earlier specification is published.    *)
C8_FailureNullsInstance ==
  [][ \A m \in 1..Len(mounts) : Rejects(m) => view' = 0 ]_vars

(* C8, amended. When the construction of the latest requested mount fails  *)
(* currentInstance is null afterwards; when that of a superseded mount     *)
(* fails currentInstance is left as it was; either way no instance of a    *)
(* mount requested before the failed one is published.                     *)
C8_FailureLeavesNoStaleInstance ==
  [][ \A m \in 1..Len(mounts) :
        Rejects(m)
          => /\ view' = IF mounts[m].canceled THEN view ELSE 0
             /\ m = Len(mounts) => view' = 0
             /\ view' # 0 => view' > m
    ]_vars

C8_Witness ==
  /\ Len(mounts) >= 2
  /\ mounts[1].published
  /\ mounts[Len(mounts)].st = "failed"
  /\ ~mounts[Len(mounts)].canceled
  /\ view = 0

(* C9. When the construction of a mount that has not been superseded fails *)
(* an error is surfaced: the session's err becomes non-empty.              *)
C9_ConstructionErrorSurfaced ==
  [][ \A m \in 1..Len(mounts) :
        (Rejects(m) /\ ~mounts[m].canceled) => err' # "" ]_vars

(* C10. The installed Plan, if any, satisfies the compare-plan invariant   *)
(* (a Plan from the agent that violates it is not installed).              *)
C10_ComparePlanInvariant ==
  plan # Null => ComparePlanOk(The(plan))

(* C11. Quick-load determinism: a successful loadYearChart installs        *)
(* exactly the canonical Plan (papers_by_year, 2020-2024, field_level 1,   *)
(* field_score_min 0.3, top_k 25, mark bar, compare false, compare bounds  *)
(* null) and a successful loadFieldChart the same with papers_by_field,    *)
(* whatever the response holds and whatever Plan was installed before.     *)
C11_QuickLoadCanonical ==
  [][ \A r \in net :
        (Settles(r) /\ r.kind # "chat" /\ Delivered.st = "ok")
          => /\ r.kind \in {"papers_by_year", "papers_by_field"}
             /\ plan' = Some([chart_type |-> r.kind,
                              year_from |-> 2020, year_to |-> 2024,
                              doctype |-> Null, field_level |-> 1,
                              field_score_min_tenths |-> 3, top_k |-> 25,
                              color |-> Null, mark |-> "bar",
                              compare |-> FALSE, compare_year_from |-> Null,
                              compare_year_to |-> Null])
    ]_vars

(* A quick load completed over a Plan of the agent (which the last render  *)
(* still shows).                                                           *)
C11_Witness ==
  /\ settled # Null
  /\ The(settled).kind = "papers_by_field"
  /\ The(settled).resp.st = "ok"
  /\ rendered.plan # Null
  /\ The(rendered.plan) \in AgentPlans
  /\ plan = Some(CanonicalPlan("papers_by_field"))

(* C12. The Plan sent as prev_plan with a chat request is the Plan         *)
(* installed at the moment the request is issued (the Plan left by the     *)
(* turns completed so far, or null).                                       *)
C12_PrevPlanIsInstalledPlan ==
  \A r \in net : r.kind = "chat" => r.prev_plan = r.before.plan

(* C13. Turn History is append-only: every step leaves the previous        *)
(* history as a prefix of the new one; and a successful chat turn appends  *)
(* its assistant entry directly after the user entry of the same turn (the *)
(* entry appended when the turn was submitted), so that every assistant    *)
(* entry is directly preceded by the user entry of its turn.               *)
C13_TurnHistoryAppendOnly ==
  [][ /\ Len(messages') >= Len(messages)
      /\ SubSeq(messages', 1, Len(messages)) = messages
      /\ \A r \in net :
           (Settles(r) /\ r.kind = "chat" /\ Delivered.st = "ok")
             => /\ Len(messages') = Len(messages) + 1
                /\ messages'[Len(messages')].role = "assistant"
                /\ Len(messages) = Len(r.before.messages) + 1
                /\ messages[Len(messages)] = [role |-> "user", text |-> r.text]
    ]_vars

(* C14. Using a selection as follow-up only populates the input: whatever  *)
(* the selection and the Plan, the step sets the input to the translation  *)
(* (or leaves it when there is none), leaves the in-flight flag, Turn      *)
(* History, Plan, specification, dataset and Selection unchanged and       *)
(* issues no request.                                                      *)
C14_FollowUpOnlyPopulatesInput ==
  [][ quickAskFromSelection
        => /\ UNCHANGED <<sending, messages, plan, spec, data, selected>>
           /\ UNCHANGED <<net, nreq>>
           /\ input' \in {input}
                \cup translate(selectionSummary(rendered.selected), rendered.plan)
    ]_vars

(* The input holds the translation of the selection, which is still set,   *)
(* and no request is in flight.                                            *)
C14_Witness ==
  /\ selected # Null
  /\ plan # Null
  /\ translate(selectionSummary(selected), plan) # Null
  /\ input = The(translate(selectionSummary(selected), plan))
  /\ rendered.input # input
  /\ ~sending
  /\ net = {}

(* The chart types the translator defines a translation for. *)
TranslatedChartTypes == {"papers_by_year", "papers_by_field"}

(* C15, as claimed. The translation of (selection, Plan) is null when the  *)
(* selection is none or empty, when the Plan is absent, or when the Plan   *)
(* is a papers_by_field plan and the selection has no field attribute; in  *)
(* every other case of a defined chart type it is a string.                *)
C15_TranslateNullCases ==
  LET sel == selectionSummary(selected)
      result == translate(sel, plan)
      none == \/ sel = Null
              \/ plan = Null
              \/ /\ The(plan).chart_type = "papers_by_field"
                 /\ The(sel).field = Null
  IN /\ none => result = Null
     /\ (~none /\ The(plan).chart_type \in TranslatedChartTypes)
          => result # Null /\ The(result) # <<>>

(* C15, amended. As above, where "no field attribute" reads "no field      *)
(* attribute, or an empty one".                                            *)
C15_TranslateNullCasesFalsyField ==
  LET sel == selectionSummary(selected)
      result == translate(sel, plan)
      none == \/ sel = Null
              \/ plan = Null
              \/ /\ The(plan).chart_type = "papers_by_field"
                 /\ ~Truthy(The(sel).field)
  IN /\ none => result = Null
     /\ (~none /\ The(plan).chart_type \in TranslatedChartTypes)
          => result # Null /\ The(result) # <<>>

(* The follow-up of a field selection under a compare plan is in the       *)
(* input.                                                                  *)
C15_Witness ==
  /\ plan # Null
  /\ The(plan).chart_type = "papers_by_field"
  /\ The(plan).compare
  /\ selected # Null
  /\ Truthy(The(selected).value.field)
  /\ input = The(translate(selectionSummary(selected), plan))

(* The text of a value as a cell shows it: empty for null or a missing key. *)
CellText(v) == IF v = Null THEN <<>> ELSE String(The(v))

(* C16. The tabular export of a non-empty dataset reads back as: a header  *)
(* row holding the keys of the first record in that record's key order,    *)
(* then one row per record in dataset order, each built from the header    *)
(* keys only (a record missing a header key gives an empty cell, keys not  *)
(* in the header are dropped); for [{year:2020,count:5},                   *)
(* {year:2021,count:9}] the text is year,count / 2020,5 / 2021,9; and the  *)
(* file handed over by the export holds exactly that text.                 *)
C16_CsvHeaderAndRows ==
  /\ toCsv(<< << Pair(KeyYear, Num(2020)), Pair(KeyCount, Num(5)) >>,
              << Pair(KeyYear, Num(2021)), Pair(KeyCount, Num(9)) >> >>)
       = KeyYear \o <<Comma>> \o KeyCount \o <<LF>>
           \o <<"2", "0", "2", "0", Comma, "5", LF>>
           \o <<"2", "0", "2", "1", Comma, "9">>
  /\ (data # Null /\ The(data) # <<>>)
       => LET rows == The(data)
              header == Keys(rows[1])
              table == ReadCsv(toCsv(rows), 1, FALSE, <<>>, <<>>, <<>>)
          IN /\ Len(table) = Len(rows) + 1
             /\ IF header = <<>>
                  THEN \A i \in 1..Len(table) : table[i] = << <<>> >>
                  ELSE /\ table[1] = header
                       /\ \A i \in 1..Len(rows) :
                            /\ Len(table[i + 1]) = Len(header)
                            /\ \A j \in 1..Len(header) :
                                 table[i + 1][j] = CellText(Get(rows[i], header[j]))
  /\ saved # Null
       => /\ data # Null
          /\ The(saved).content = toCsv(The(data))

(* An export was made of a dataset whose second record lacks a header key  *)
(* and has a key the header lacks.                                         *)
C16_Witness ==
  /\ saved # Null
  /\ data # Null
  /\ Len(The(data)) = 2
  /\ \E j \in 1..Len(The(data)[1]) :
       \A k \in 1..Len(The(data)[2]) : The(data)[2][k].k # The(data)[1][j].k
  /\ \E k \in 1..Len(The(data)[2]) :
       \A j \in 1..Len(The(data)[1]) : The(data)[2][k].k # The(data)[1][j].k

(* The installed specification and the installed Plan, when both are set,  *)
(* come from the same turn.                                                *)
Paired == (spec # 0 /\ plan # Null) => spec = planTurn

(* A chat response that carries a specification without a Plan, or a Plan  *)
(* without a specification, is delivered in this step.                     *)
HalfTurn ==
  \E r \in net :
    /\ Settles(r) /\ r.kind = "chat" /\ Delivered.st = "ok"
    /\ Delivered.vegaLiteSpec # (Delivered.plan # Null)

(* C17, as claimed. After any sequence of completed turns the installed    *)
(* specification and the installed Plan were produced by the same turn.    *)
C17_SpecAndPlanOfSameTurn == Paired

(* C17, amended. The installed specification and Plan stay those of one    *)
(* turn through every step except the completion of a chat turn whose      *)
(* response carries only one of the two; every quick load installs its own *)
(* Plan together with its own specification or none.                       *)
C17_PairedUnlessHalfTurn ==
  [][ /\ (Paired /\ ~HalfTurn) => Paired'
      /\ \A r \in net :
           (Settles(r) /\ r.kind # "chat" /\ Delivered.st = "ok")
             => planTurn' = r.id /\ spec' \in {0, r.id} ]_vars

(* The second turn replaced the specification and the Plan of the first. *)
C17_Witness ==
  /\ lastTurn = 2
  /\ spec = 2
  /\ plan # Null
  /\ planTurn = 2
  /\ Len(mounts) >= 1
  /\ mounts[1].spec = 1

(* C18, as claimed. A published instance was constructed from the          *)
(* specification that is currently installed, never from an earlier one.   *)
C18_PublishedOfInstalledSpec ==
  view # 0 => mounts[view].spec = spec

(* C18, amended. A published instance is live and was constructed from the *)
(* specification of the last committed render, which is the installed one  *)
(* unless a specification installed since is still waiting for its render. *)
C18_PublishedOfRenderedSpec ==
  view # 0 => /\ mounts[view].st = "live"
              /\ mounts[view].spec = rendered.spec
              /\ mounts[view].spec # spec => Snapshot # rendered

(* The instance of a second specification is published, after that of the  *)
(* first was.                                                              *)
C18_Witness ==
  /\ view = 2
  /\ mounts[1].published
  /\ mounts[1].spec # mounts[2].spec
  /\ mounts[2].spec = spec
  /\ rendered.spec = spec

(* C19. The in-flight flag set by an accepted chat submission is cleared   *)
(* when that submission's request settles, on success and on failure       *)
(* alike, and only then: it is set when the submission is accepted, it     *)
(* stays set while a chat request has not settled, and once the request    *)
(* has settled and the flag is clear a submission with a non-empty text is *)
(* accepted (it issues a request).                                         *)
C19_FlagFollowsRequest ==
  [][ /\ \A r \in net : (Settles(r) /\ r.kind = "chat") => ~sending'
      /\ (sending /\ ~sending') => \E r \in net : Settles(r) /\ r.kind = "chat"
      /\ ChatInFlight' # {} => sending'
      /\ (send /\ ~sending /\ ~rendered.sending /\ trim(rendered.input) # <<>>)
           => /\ sending'
              /\ \E r \in net' \ net : r.kind = "chat"
    ]_vars

(* The instances constructed so far that have not received finalize. *)
Unfinalized == Live

(* VegaView is not mounted: the last committed render had no specification *)
(* (it was never mounted, or it has been unmounted).                       *)
Unmounted == rendered.spec = 0

(* C20. No render instance is leaked: every instance ever constructed that *)
(* is not the published one has been finalized; while VegaView is          *)
(* unmounted every constructed instance is finalized, one whose            *)
(* construction resolves after the unmount (or after a newer mount) in the *)
(* very step that resolves it; and a finalized instance stays finalized.   *)
C20_NoInstanceLeaked ==
  [][ /\ \A m \in Unfinalized' : m = view'
      /\ Unmounted' => Unfinalized' = {}
      /\ \A m \in 1..Len(mounts) :
           /\ (mounts[m].st = "constructing" /\ mounts[m].canceled
                 /\ mounts'[m].st # "constructing")
                => mounts'[m].st \in {"finalized", "failed"}
           /\ mounts[m].st = "finalized" => mounts'[m].st = "finalized"
    ]_vars

(* VegaView was unmounted while a construction was under way, which then   *)
(* resolved: its instance is finalized, never published.                   *)
C20_Witness ==
  /\ Unmounted
  /\ mounts # <<>>
  /\ mounts[Len(mounts)].st = "finalized"
  /\ mounts[Len(mounts)].canceled
  /\ ~mounts[Len(mounts)].published
  /\ view = 0

====
